---- MODULE Spec2Model ----
(***************************************************************************)
(* Prague waste assistant bot (app/main.py): the per-user conversation     *)
(* state kept in context.user_data, the photo, button and location         *)
(* handlers, the label-to-bin mapping and the nearest-facility selection.  *)
(*                                                                         *)
(* Texts are sequences of one-character strings, so that lower(),          *)
(* startswith() and the substring test "x in label" are computed.          *)
(* A reply is recorded by its kind (which message of the source it is)     *)
(* and the language it was sent in.                                        *)
(***************************************************************************)
EXTENDS Integers, Sequences, FiniteSets, TLC

\* ------------------------------------------------------------------ bounds
\* Largest number of features a backend answer holds in the model (the
\* backend additionally honours the "limit" parameter of the query).
MaxFeatures == 2

\* ------------------------------------------------------------------- texts
UpperCase == <<"A","B","C","D","E","F","G","H","I","J","K","L","M",
               "N","O","P","Q","R","S","T","U","V","W","X","Y","Z">>
LowerCase == <<"a","b","c","d","e","f","g","h","i","j","k","l","m",
               "n","o","p","q","r","s","t","u","v","w","x","y","z">>

\* str.lower() on one character
LowerChar(c) ==
  IF \E i \in 1..Len(UpperCase) : UpperCase[i] = c
  THEN LowerCase[CHOOSE i \in 1..Len(UpperCase) : UpperCase[i] = c]
  ELSE c

\* str.lower()
Lower(s) == [i \in 1..Len(s) |-> LowerChar(s[i])]

\* str.startswith(p)
StartsWith(s, p) == Len(p) <= Len(s) /\ SubSeq(s, 1, Len(p)) = p

\* the substring test "x in label"
Contains(s, x) ==
  \E i \in 0..(Len(s) - Len(x)) : SubSeq(s, i + 1, i + Len(x)) = x

\* ------------------------------------------------------------- map_to_bin
\* The if/elif chain of map_to_bin, in source order.
BinRules ==
  <<
    [category |-> "Plastics", color |-> "yellow", keywords |-> <<
        <<"p","l","a","s","t","i","c">>,
        <<"b","o","t","t","l","e">>,
        <<"p","e","t">>,
        <<"p","a","c","k","a","g","i","n","g">>,
        <<"b","a","g">>>>],
    [category |-> "Paper", color |-> "blue", keywords |-> <<
        <<"p","a","p","e","r">>,
        <<"c","a","r","d","b","o","a","r","d">>,
        <<"n","e","w","s","p","a","p","e","r">>,
        <<"m","a","g","a","z","i","n","e">>,
        <<"e","n","v","e","l","o","p","e">>>>],
    [category |-> "Glass", color |-> "green", keywords |-> <<
        <<"g","l","a","s","s">>,
        <<"j","a","r">>,
        <<"b","o","t","t","l","e">>>>],
    [category |-> "Metals", color |-> "gray", keywords |-> <<
        <<"c","a","n">>,
        <<"t","i","n">>,
        <<"m","e","t","a","l">>,
        <<"a","l","u","m","i","n","u","m">>,
        <<"f","o","i","l">>>>],
    [category |-> "Biodegradable waste", color |-> "brown", keywords |-> <<
        <<"f","r","u","i","t">>,
        <<"v","e","g","e","t","a","b","l","e">>,
        <<"f","o","o","d">>,
        <<"o","r","g","a","n","i","c">>,
        <<"p","e","e","l">>,
        <<"c","o","m","p","o","s","t">>>>],
    [category |-> "Beverage cartons", color |-> "orange", keywords |-> <<
        <<"c","a","r","t","o","n">>,
        <<"t","e","t","r","a","p","a","k">>,
        <<"j","u","i","c","e"," ","b","o","x">>,
        <<"m","i","l","k"," ","c","a","r","t","o","n">>>>],
    [category |-> "Electronic waste", color |-> "drop-off", keywords |-> <<
        <<"p","h","o","n","e">>,
        <<"b","a","t","t","e","r","y">>,
        <<"c","a","b","l","e">>,
        <<"e","l","e","c","t","r","o","n","i","c">>,
        <<"c","h","a","r","g","e","r">>>>],
    [category |-> "Hazardous waste", color |-> "drop-off", keywords |-> <<
        <<"c","h","e","m","i","c","a","l">>,
        <<"p","a","i","n","t">>,
        <<"m","e","d","i","c","i","n","e">>,
        <<"h","a","z","a","r","d","o","u","s">>,
        <<"t","o","x","i","c">>>>],
    [category |-> "Textile", color |-> "drop-off", keywords |-> <<
        <<"c","l","o","t","h","e","s">>,
        <<"t","e","x","t","i","l","e">>,
        <<"f","a","b","r","i","c">>,
        <<"s","h","o","e","s">>>>]
  >>

\* any(x in label for x in keywords)
RuleMatches(rule, label) ==
  \E k \in 1..Len(rule.keywords) : Contains(label, rule.keywords[k])

\* (variant: the glass rule tested ahead of the others)
map_to_bin_glass_first(label) ==
  LET l == Lower(label)
      hits == {i \in 1..Len(BinRules) : RuleMatches(BinRules[i], l)}
  IN IF hits = {}
     THEN <<"Mixed waste", "black">>
     ELSE LET i == IF 3 \in hits THEN 3 ELSE CHOOSE j \in hits : \A k \in hits : j <= k
          IN <<BinRules[i].category, BinRules[i].color>>

\* (variant: the last matching rule decides)
map_to_bin_last_match(label) ==
  LET l == Lower(label)
      hits == {i \in 1..Len(BinRules) : RuleMatches(BinRules[i], l)}
  IN IF hits = {}
     THEN <<"Mixed waste", "black">>
     ELSE LET i == CHOOSE j \in hits : \A k \in hits : j >= k
          IN <<BinRules[i].category, BinRules[i].color>>

\* map_to_bin(label): (category, bin colour) of the first matching rule
map_to_bin(label) ==
  LET l == Lower(label)
      hits == {i \in 1..Len(BinRules) : RuleMatches(BinRules[i], l)}
  IN IF hits = {}
     THEN <<"Mixed waste", "black">>
     ELSE LET i == CHOOSE j \in hits : \A k \in hits : j <= k
          IN <<BinRules[i].category, BinRules[i].color>>

\* ---------------------------------------------------------- classify_image
L_unknown == <<"u","n","k","n","o","w","n">>
L_plastic_bottle == <<"p","l","a","s","t","i","c"," ","b","o","t","t","l","e">>
L_used_glass_jar == <<"u","s","e","d"," ","g","l","a","s","s"," ","j","a","r">>
L_Drinkware == <<"D","r","i","n","k","w","a","r","e">>
L_xyz == <<"x","y","z">>

\* Label lists the vision service answers with (labelAnnotations, in order).
VisionLabelLists ==
  { <<>>,
    <<L_xyz>>,
    <<L_Drinkware, L_plastic_bottle>>,
    <<L_used_glass_jar, L_plastic_bottle>> }

\* (variant: the first label of the answer, whatever its category)
classify_image_first(labelAnnotations) ==
  IF Len(labelAnnotations) > 0 THEN Lower(labelAnnotations[1]) ELSE L_unknown

\* The loop of classify_image over the lower-cased labels: the first label
\* whose category is not "Mixed waste", else the first label, else "unknown".
classify_image(labelAnnotations) ==
  LET labels == [i \in 1..Len(labelAnnotations) |-> Lower(labelAnnotations[i])]
      useful == {i \in 1..Len(labels) : map_to_bin(labels[i])[1] # "Mixed waste"}
  IN IF useful # {}
     THEN labels[CHOOSE i \in useful : \A k \in useful : i <= k]
     ELSE IF Len(labels) > 0 THEN labels[1] ELSE L_unknown

\* ------------------------------------------------------ calculate_distance
\* Coordinates are integer offsets, in units of 1e-4 degree, from a base
\* point in central Prague (50.0755 N, 14.4378 E).  One unit of arc is
\* 1.745e-6 rad, that is 11.12 m on a sphere of radius R.
R == 6371000
UnitArcCm == ((R \div 1000) * 1745) \div 10000

RECURSIVE ISqrtBetween(_, _, _)
ISqrtBetween(n, lo, hi) ==
  IF lo >= hi THEN lo
  ELSE LET mid == (lo + hi + 1) \div 2
       IN IF mid * mid <= n THEN ISqrtBetween(n, mid, hi)
                            ELSE ISqrtBetween(n, lo, mid - 1)

\* floor of the square root
ISqrt(n) == ISqrtBetween(n, 0, 46340)

\* math.cos(lat_rad) in hundredths: 0.64 at the base point, one hundredth
\* less for every 7474 units (0.7474 degree) further north
CosCenti(lat) == 64 - (lat + 3737) \div 7474

\* (variant: the longitude term scaled by the cosine of the first latitude
\* alone)
calculate_distance_one_cos(lat1, lon1, lat2, lon2) ==
  LET delta_lat == lat2 - lat1
      delta_lon == lon2 - lon1
      a == 10000 * delta_lat * delta_lat
           + CosCenti(lat1) * CosCenti(lat1) * delta_lon * delta_lon
      c == ISqrt(100 * a)
  IN [distance |-> (UnitArcCm * c) \div 1000,
      maps_link |-> <<lat1, lon1, lat2, lon2>>]

\* calculate_distance: the haversine term
\*   a = sin(dlat/2)^2 + cos(lat1) cos(lat2) sin(dlon/2)^2
\* in its small-angle form (sin x = x), distance = R * c in centimetres,
\* and the directions link, which encodes both coordinate pairs.
calculate_distance(lat1, lon1, lat2, lon2) ==
  LET delta_lat == lat2 - lat1
      delta_lon == lon2 - lon1
      a == 10000 * delta_lat * delta_lat
           + CosCenti(lat1) * CosCenti(lat2) * delta_lon * delta_lon
      c == ISqrt(100 * a)
  IN [distance |-> (UnitArcCm * c) \div 1000,
      maps_link |-> <<lat1, lon1, lat2, lon2>>]

\* f"{distance:.0f}": centimetres rounded to whole metres
RoundMetres(cm) == (cm + 50) \div 100

\* ---------------------------------------------------------------- features
\* GeoJSON features: geometry.coordinates is [lon, lat].
Facilities ==
  { [name |-> "A", coordinates |-> <<0, 3>>],
    [name |-> "B", coordinates |-> <<0, -3>>],
    [name |-> "C", coordinates |-> <<7, 0>>] }

\* Locations a user shares (latitude, longitude).
Locations == { [latitude |-> 0, longitude |-> 0],
               [latitude |-> 1, longitude |-> 0] }

\* Sequences of distinct facilities of length at most n.
FeatureLists(n) ==
  UNION { { fs \in [1..k -> Facilities] :
              \A i, j \in 1..k : i # j => fs[i] # fs[j] } : k \in 0..n }

\* key of min(): distance from the shared location to the feature
FeatureDistance(loc, f) ==
  calculate_distance(loc.latitude, loc.longitude,
                     f.coordinates[2], f.coordinates[1]).distance

\* (variant: the first feature of the answer, unranked)
closest_feature_first(loc, features) == features[1]

\* (variant: the last feature of minimal key)
closest_feature_last(loc, features) ==
  LET best == CHOOSE i \in 1..Len(features) :
                /\ \A j \in 1..Len(features) :
                     FeatureDistance(loc, features[i]) <= FeatureDistance(loc, features[j])
                /\ \A j \in (i + 1)..Len(features) :
                     FeatureDistance(loc, features[j]) > FeatureDistance(loc, features[i])
  IN features[best]

\* min(features, key=...): the first feature of minimal key
closest_feature(loc, features) ==
  LET best == CHOOSE i \in 1..Len(features) :
                /\ \A j \in 1..Len(features) :
                     FeatureDistance(loc, features[i]) <= FeatureDistance(loc, features[j])
                /\ \A j \in 1..(i - 1) :
                     FeatureDistance(loc, features[j]) > FeatureDistance(loc, features[i])
  IN features[best]

\* ------------------------------------------------------------ user state
\* The conversation of one user: a handler reads and writes only the
\* user_data of the user whose update it handles.
Users == {"u1"}

\* a key that is not in context.user_data
None == "None"

\* no "last_item" key in context.user_data (the key holds a pair otherwise)
NoItem == <<>>

\* callback_data of the three /findtrash buttons
Modes == {"smarttrash", "bulkytrash", "wasteyard"}

EN == <<"e", "n">>

\* update.effective_user.language_code: a missing code (<<>>), which the
\* handlers read as "en", and a code the translation service is called for
LanguageCodes == { <<>>, <<"c", "s">> }

VARIABLES
  user_data,   \* context.user_data of every user: the keys "mode", "last_item"
  turn,        \* what the handling of the latest event did
  call         \* one application of a utility function: arguments and result

vars == <<user_data, turn, call>>

\* ------------------------------------------------------- backend answers
\* What a requests.get to a Golemio backend meets.
ProviderFailures ==
  { "network_error",               \* ConnectionError
    "http_error",                  \* raise_for_status(): HTTPError
    "no_response",                 \* the backend never answers
    "bad_json_request_exception",  \* response.json() raises requests' JSONDecodeError
    "bad_json_value_error",        \* response.json() raises a plain ValueError
    "bad_shape",                   \* features that lack "geometry"/"properties"
    "no_features" }                \* a JSON object without the "features" key

ProviderResponses ==
  { [kind |-> k, features |-> <<>>] : k \in ProviderFailures }
    \cup { [kind |-> "ok", features |-> fs] : fs \in FeatureLists(MaxFeatures) }

\* How the call ends for the caller: "data" (a parsed answer),
\* "RequestException", "Exception" (any other exception) or "hang"
\* (no answer and no timeout given).
RequestOutcome(resp, timeout) ==
  CASE resp.kind \in {"ok", "bad_shape", "no_features"} -> "data"
    [] resp.kind \in {"network_error", "http_error",
                      "bad_json_request_exception"} -> "RequestException"
    [] resp.kind = "no_response" ->
         IF timeout > 0 THEN "RequestException" ELSE "hang"
    [] resp.kind = "bad_json_value_error" -> "Exception"

\* ------------------------------------------------------------ the queries
\* One requests.get: the endpoint, its params and the timeout argument
\* (0 when the call passes none).
Query(backend, loc, range, onlyMonitored, limit, timeout) ==
  [backend |-> backend, latlng |-> <<loc.latitude, loc.longitude>>,
   range |-> range, onlyMonitored |-> onlyMonitored,
   limit |-> limit, timeout |-> timeout]

\* (variant: the default lookup with the range of handle_smart_trash)
LocationParamsQueryWide(loc) == Query("v2/sortedwastestations", loc, 1000, TRUE, 5, 10)

\* params of handle_location, sent by the photo branch and the default branch
LocationParamsQuery(loc) == Query("v2/sortedwastestations", loc, 500, TRUE, 5, 10)

\* params of handle_smart_trash / handle_bulky_waste / handle_waste_yards
SmartTrashQuery(loc) == Query("v2/sortedwastestations", loc, 1000, TRUE, 1, 0)
BulkyWasteQuery(loc) == Query("v1/bulky-waste/stations", loc, 2, FALSE, 1, 0)
WasteYardsQuery(loc) == Query("v2/wastecollectionyards", loc, 5000, FALSE, 2, 0)

\* ---------------------------------------------------------------- replies
\* An English text of the source, named by its kind.
Msg(kind, detail) == [kind |-> kind, detail |-> detail, lang |-> EN]

\* (variant: the prefix test made on the code as given, without lower())
translate_text_as_given(text, target_lang, service_ok) ==
  IF StartsWith(target_lang, EN)
  THEN [raised |-> FALSE, called |-> FALSE, text |-> text]
  ELSE IF service_ok
       THEN [raised |-> FALSE, called |-> TRUE,
             text |-> [text EXCEPT !.lang = target_lang]]
       ELSE [raised |-> TRUE, called |-> TRUE, text |-> text]

\* translate_text(text, target_lang): the text itself when the lower-cased
\* code starts with "en"; otherwise one call of the translation service,
\* whose answer is the text in target_lang, or whose failure is raised.
translate_text(text, target_lang, service_ok) ==
  IF StartsWith(Lower(target_lang), EN)
  THEN [raised |-> FALSE, called |-> FALSE, text |-> text]
  ELSE IF service_ok
       THEN [raised |-> FALSE, called |-> TRUE,
             text |-> [text EXCEPT !.lang = target_lang]]
       ELSE [raised |-> TRUE, called |-> TRUE, text |-> text]

\* One run of a handler: the user's data, what was asked and sent so far,
\* the calls of the translation service, whether translate_text raised and
\* whether a reply_text call failed, the exception in flight, and how the
\* handler ended.
NewRun(ud, branch) ==
  [ud |-> ud, branch |-> branch, queries |-> <<>>, replies |-> <<>>,
   translations |-> 0, translate_raised |-> FALSE, reply_failed |-> FALSE,
   exc |-> "none", raised |-> FALSE, hung |-> FALSE]

SendOutcomes == {"ok", "translate_fails", "reply_fails"}

\* await ...reply_text(translate_text(msg, lang)): either call may raise
SendReply(st, msg, lang, outcome) ==
  LET tr == translate_text(msg, lang, outcome # "translate_fails")
      n == st.translations + (IF tr.called THEN 1 ELSE 0)
  IN IF tr.raised
     THEN [st EXCEPT !.translations = n, !.translate_raised = TRUE,
                     !.exc = "Exception"]
     ELSE IF outcome = "reply_fails"
          THEN [st EXCEPT !.translations = n, !.reply_failed = TRUE,
                          !.exc = "Exception"]
          ELSE [st EXCEPT !.translations = n, !.replies = Append(@, tr.text)]

\* every way the send can end
SendReplies(st, msg, lang) ==
  { SendReply(st, msg, lang, o) : o \in SendOutcomes }

\* language_code or "en"
LangOrEn(language_code) == IF language_code = <<>> THEN EN ELSE language_code

\* --------------------------------------------------------- mode helpers
\* names of the features, in the order of the answer (the listing loop)
FeatureNames(features) == [i \in 1..Len(features) |-> features[i].name]

\* Common shape of the three helpers: one requests.get without timeout,
\* raise_for_status(), json(), then the "not found" text or the listing.
\* result is "text", "RequestException", "Exception" or "hang".
HelperLookup(query, none_kind, list_kind, resp) ==
  LET out == RequestOutcome(resp, query.timeout)
  IN [query |-> query,
      result |-> IF out # "data" THEN out
                 ELSE IF resp.kind = "bad_shape" THEN "Exception"
                 ELSE "text",
      text |-> IF resp.features = <<>>
               THEN Msg(none_kind, <<>>)
               ELSE Msg(list_kind, FeatureNames(resp.features))]

handle_smart_trash(loc, resp) ==
  HelperLookup(SmartTrashQuery(loc), "no_smart_containers", "smart_containers", resp)

handle_bulky_waste(loc, resp) ==
  HelperLookup(BulkyWasteQuery(loc), "no_bulky_points", "bulky_points", resp)

handle_waste_yards(loc, resp) ==
  HelperLookup(WasteYardsQuery(loc), "no_waste_yards", "waste_yards", resp)

\* ------------------------------------------------------ handle_location
\* The outer "except Exception" of handle_location: one more reply, whose
\* own failure leaves the handler as an exception.
LocationFailed(st, lang) ==
  { IF t.exc = "none" THEN t ELSE [t EXCEPT !.raised = TRUE] :
      t \in SendReplies([st EXCEPT !.exc = "none"],
                        Msg("error_processing_location", <<>>), lang) }

\* The outer try of handle_location around a set of runs.
OuterTry(runs, lang) ==
  UNION { IF s.exc = "none" THEN {s} ELSE LocationFailed(s, lang) : s \in runs }

\* The nearest-feature reply of the photo branch and the default branch.
NearestDetail(loc, features) ==
  LET f == closest_feature(loc, features)
      d == calculate_distance(loc.latitude, loc.longitude,
                              f.coordinates[2], f.coordinates[1])
  IN <<f.name, RoundMetres(d.distance), d.maps_link>>

\* The lookup at 500 m shared by the photo branch and the default branch
\* (requests.get with timeout=10, then empty / closest / RequestException).
NearestLookup(st0, loc, lang, resp, none_kind, found_kind, error_kind, detail) ==
  LET st == [st0 EXCEPT !.queries = Append(@, LocationParamsQuery(loc))]
      out == RequestOutcome(resp, LocationParamsQuery(loc).timeout)
  IN CASE out = "RequestException" ->
            SendReplies(st, Msg(error_kind, detail), lang)
       [] out = "Exception" -> {[st EXCEPT !.exc = "Exception"]}
       [] out = "data" /\ resp.kind = "bad_shape" -> {[st EXCEPT !.exc = "Exception"]}
       [] out = "data" /\ resp.kind \in {"ok", "no_features"} /\ resp.features = <<>> ->
            SendReplies(st, Msg(none_kind, detail), lang)
       [] OTHER ->
            SendReplies(st, Msg(found_kind, detail \o NearestDetail(loc, resp.features)), lang)

\* (variant: "last_item" deleted only once the backend has answered)
PhotoBranchKeepOnFailure(ud, loc, lang, resp) ==
  NearestLookup([NewRun(ud, "last_item") EXCEPT
                   !.ud.last_item =
                     IF RequestOutcome(resp, 10) = "data" THEN NoItem ELSE @],
                loc, lang, resp,
                "no_bins_for_item", "nearest_bin_for_item", "error_finding_bin",
                ud.last_item)

\* if "last_item" in context.user_data: the key is deleted first, then the
\* SmartBin lookup at 500 m is made for the stored (item, bin_color).
PhotoBranch(ud, loc, lang, resp) ==
  NearestLookup([NewRun(ud, "last_item") EXCEPT !.ud.last_item = NoItem],
                loc, lang, resp,
                "no_bins_for_item", "nearest_bin_for_item", "error_finding_bin",
                ud.last_item)

\* The part of the mode branch after the "Searching nearby" reply went out.
ModeDispatch(st0, loc, lang, resp) ==
  LET mode == st0.ud.mode
      known == mode \in Modes
      h == CASE mode = "smarttrash" -> handle_smart_trash(loc, resp)
             [] mode = "bulkytrash" -> handle_bulky_waste(loc, resp)
             [] mode = "wasteyard" -> handle_waste_yards(loc, resp)
             [] OTHER -> [query |-> <<>>, result |-> "text",
                          text |-> Msg("unknown_request_type", <<>>)]
      st == IF known THEN [st0 EXCEPT !.queries = Append(@, h.query)] ELSE st0
  IN CASE h.result = "hang" -> {[st EXCEPT !.hung = TRUE]}
       [] h.result = "RequestException" ->
            SendReplies(st, Msg("service_unavailable", <<>>), lang)
       [] h.result = "Exception" ->
            SendReplies(st, Msg("something_went_wrong", <<>>), lang)
       [] OTHER ->
            UNION { IF t.exc = "none"
                    THEN {[t EXCEPT !.ud.mode = None]}
                    ELSE SendReplies([t EXCEPT !.exc = "none"],
                                     Msg("something_went_wrong", <<>>), lang) :
                      t \in SendReplies(st, h.text, lang) }

\* if mode: the "Searching nearby" reply, then the dispatch inside the
\* inner try with its two except clauses.
ModeBranch(ud, loc, lang, resp) ==
  UNION { IF s.exc = "none" THEN ModeDispatch(s, loc, lang, resp) ELSE {s} :
            s \in SendReplies(NewRun(ud, "mode"), Msg("searching", <<>>), lang) }

\* no photo, no mode: the single closest monitored container within 500 m
DefaultBranch(ud, loc, lang, resp) ==
  NearestLookup(NewRun(ud, "default"), loc, lang, resp,
                "no_monitored_containers", "closest_container", "golemio_api_error",
                <<>>)

\* (variant: the mode test placed before the "last_item" test)
handle_location_mode_first(ud, loc, language_code, resp) ==
  LET lang == LangOrEn(language_code)
  IN OuterTry(IF ud.mode # None THEN ModeBranch(ud, loc, lang, resp)
              ELSE IF ud.last_item # NoItem THEN PhotoBranch(ud, loc, lang, resp)
              ELSE DefaultBranch(ud, loc, lang, resp),
              lang)

\* handle_location(update, context): every way the handler can run for the
\* user's data ud, the shared location, the language code and the answer
\* the backend gives.
handle_location(ud, loc, language_code, resp) ==
  LET lang == LangOrEn(language_code)
  IN OuterTry(IF ud.last_item # NoItem THEN PhotoBranch(ud, loc, lang, resp)
              ELSE IF ud.mode # None THEN ModeBranch(ud, loc, lang, resp)
              ELSE DefaultBranch(ud, loc, lang, resp),
              lang)

\* ---------------------------------------------------------- handle_photo
\* What the download and the vision request of a photo event meet.
PhotoFailures == {"download_fails", "vision_fails", "vision_no_response"}

PhotoInputs ==
  { [kind |-> k, labels |-> <<>>] : k \in PhotoFailures }
    \cup { [kind |-> "labels", labels |-> ls] : ls \in VisionLabelLists }

\* item = classify_image(image_path); _, bin_color = map_to_bin(item),
\* tabulated over the label lists of the model.
ClassifiedItem ==
  [ls \in VisionLabelLists |->
     <<classify_image(ls), map_to_bin(classify_image(ls))[2]>>]

\* The outer "except Exception" of handle_photo.
PhotoFailed(st, lang) ==
  { IF t.exc = "none" THEN t ELSE [t EXCEPT !.raised = TRUE] :
      t \in SendReplies([st EXCEPT !.exc = "none"],
                        Msg("error_processing_photo", <<>>), lang) }

\* (variant: "last_item" stored only once the reply has gone out)
handle_photo_store_last(ud, photo, language_code) ==
  LET lang == LangOrEn(language_code)
      st0 == NewRun(ud, "photo")
      item == ClassifiedItem[photo.labels][1]
      bin_color == ClassifiedItem[photo.labels][2]
  IN CASE photo.kind = "vision_no_response" -> {[st0 EXCEPT !.hung = TRUE]}
       [] photo.kind \in {"download_fails", "vision_fails"} ->
            PhotoFailed([st0 EXCEPT !.exc = "Exception"], lang)
       [] OTHER ->
            UNION { IF s.exc = "none"
                    THEN {[s EXCEPT !.ud.last_item = <<item, bin_color>>]}
                    ELSE PhotoFailed(s, lang) :
                      s \in SendReplies(st0,
                                        Msg("share_location_for_item", <<item, bin_color>>),
                                        lang) }

\* handle_photo(update, context): download, classify_image (its requests.post
\* has no timeout), store (item, bin_color) under "last_item", ask for the
\* location; any exception goes to the outer except.
handle_photo(ud, photo, language_code) ==
  LET lang == LangOrEn(language_code)
      st0 == NewRun(ud, "photo")
      item == ClassifiedItem[photo.labels][1]
      bin_color == ClassifiedItem[photo.labels][2]
      stored == [st0 EXCEPT !.ud.last_item = <<item, bin_color>>]
  IN CASE photo.kind = "vision_no_response" -> {[st0 EXCEPT !.hung = TRUE]}
       [] photo.kind \in {"download_fails", "vision_fails"} ->
            PhotoFailed([st0 EXCEPT !.exc = "Exception"], lang)
       [] OTHER ->
            UNION { IF s.exc = "none" THEN {s} ELSE PhotoFailed(s, lang) :
                      s \in SendReplies(stored,
                                        Msg("share_location_for_item", <<item, bin_color>>),
                                        lang) }

\* --------------------------------------------------------- handle_choice
\* (variant: selecting a mode drops a stored "last_item")
handle_choice_exclusive(ud, choice, language_code, answer_ok) ==
  LET lang == LangOrEn(language_code)
      st0 == NewRun(ud, "choice")
  IN IF ~answer_ok
     THEN {[st0 EXCEPT !.exc = "Exception", !.raised = TRUE]}
     ELSE { IF t.exc = "none" THEN t ELSE [t EXCEPT !.raised = TRUE] :
              t \in SendReplies([st0 EXCEPT !.ud.mode = choice, !.ud.last_item = NoItem],
                                Msg("share_location_for_mode", <<choice>>), lang) }

\* handle_choice(update, context): query.answer(), store the button's
\* callback_data under "mode", send the prompt.  The handler has no try.
handle_choice(ud, choice, language_code, answer_ok) ==
  LET lang == LangOrEn(language_code)
      st0 == NewRun(ud, "choice")
  IN IF ~answer_ok
     THEN {[st0 EXCEPT !.exc = "Exception", !.raised = TRUE]}
     ELSE { IF t.exc = "none" THEN t ELSE [t EXCEPT !.raised = TRUE] :
              t \in SendReplies([st0 EXCEPT !.ud.mode = choice],
                                Msg("share_location_for_mode", <<choice>>), lang) }

\* ------------------------------------------------------------- the machine
NoResponse == [kind |-> "none", features |-> <<>>]
NoPhoto == [kind |-> "none", labels |-> <<>>]
NoLocation == [latitude |-> 0, longitude |-> 0]

\* The record of a handled event: the event, and what its handler did.
Turn(u, event, photo, choice, location, resp, run) ==
  [user |-> u, event |-> event,
   photo |-> photo, choice |-> choice, location |-> location, resp |-> resp,
   branch |-> run.branch, queries |-> run.queries, replies |-> run.replies,
   translate_raised |-> run.translate_raised, reply_failed |-> run.reply_failed,
   raised |-> run.raised, hung |-> run.hung]

EmptyUserData == [mode |-> None, last_item |-> NoItem]

\* no event handled yet
NoTurn ==
  Turn(None, "none", NoPhoto, None, NoLocation, NoResponse, NewRun(EmptyUserData, "none"))

\* no utility function under application
NoCall == [fn |-> "none"]

Init ==
  /\ user_data = [u \in Users |-> EmptyUserData]
  /\ turn = NoTurn
  /\ call = NoCall

\* A synchronous request that never returns keeps the event loop: no
\* further update is handled.
Running == ~turn.hung

\* a photo message of user u
HandlePhoto(u) ==
  /\ Running
  /\ \E photo \in PhotoInputs, language_code \in LanguageCodes :
       \E run \in handle_photo(user_data[u], photo, language_code) :
         /\ user_data' = [user_data EXCEPT ![u] = run.ud]
         /\ turn' = Turn(u, "photo", photo, None, NoLocation, NoResponse, run)
         /\ UNCHANGED call

\* user u taps one of the /findtrash buttons
HandleChoice(u) ==
  /\ Running
  /\ \E choice \in Modes, language_code \in LanguageCodes, answer_ok \in BOOLEAN :
       \E run \in handle_choice(user_data[u], choice, language_code, answer_ok) :
         /\ user_data' = [user_data EXCEPT ![u] = run.ud]
         /\ turn' = Turn(u, "choice", NoPhoto, choice, NoLocation, NoResponse, run)
         /\ UNCHANGED call

\* user u shares a location; the backend answers within the query's limit
\* (no answer is recorded when the handler sends no query)
HandleLocation(u) ==
  /\ Running
  /\ \E loc \in Locations, language_code \in LanguageCodes, resp \in ProviderResponses :
       \E run \in handle_location(user_data[u], loc, language_code, resp) :
         /\ \A i \in 1..Len(run.queries) : Len(resp.features) <= run.queries[i].limit
         /\ user_data' = [user_data EXCEPT ![u] = run.ud]
         /\ turn' = Turn(u, "location", NoPhoto, None, loc,
                          IF run.queries = <<>> THEN NoResponse ELSE resp, run)
         /\ UNCHANGED call

Next ==
  \E u \in Users :
    \/ HandlePhoto(u)
    \/ HandleChoice(u)
    \/ HandleLocation(u)

Spec == Init /\ [][Next]_vars

\* ------------------------------------------------------------ properties
ReplyKinds(t) == { t.replies[i].kind : i \in 1..Len(t.replies) }

\* backend failures that count as "unavailable"
UnavailableKinds == {"network_error", "http_error", "no_response"}

\* the "unavailable / try later" texts of the three branches
UnavailableReplies == {"error_finding_bin", "service_unavailable", "golemio_api_error"}

\* the "nothing found nearby" texts
NotFoundReplies ==
  {"no_bins_for_item", "no_smart_containers", "no_bulky_points",
   "no_waste_yards", "no_monitored_containers"}

\* the texts of the except clauses
ErrorReplies ==
  UnavailableReplies \cup
    {"something_went_wrong", "error_processing_location", "error_processing_photo"}

\* the step handles a location event of user u
LocationStep(u) == turn'.event = "location" /\ turn'.user = u

\* C1: a location event whose backend call fails as unavailable (network
\* error, HTTP error status, timeout) is answered with an "unavailable"
\* reply, does not raise, and leaves neither mode nor last_item set.
\* Stated for the events in which nothing but the backend fails.
C1_UnavailableClearsState ==
  (/\ turn.event = "location"
   /\ turn.queries # <<>>
   /\ turn.resp.kind \in UnavailableKinds
   /\ ~turn.hung
   /\ ~turn.translate_raised
   /\ ~turn.reply_failed)
  => /\ ReplyKinds(turn) \cap UnavailableReplies # {}
     /\ ~turn.raised
     /\ user_data[turn.user] = EmptyUserData

\* C2: a location event that finds mode set (and no last_item) leaves mode
\* absent once it has been processed, whatever its outcome.
\* Stated for the events in which nothing but the backend may fail.
C2_ModeClearedAfterLocation ==
  [][\A u \in Users :
       (/\ LocationStep(u)
        /\ user_data[u].last_item = NoItem
        /\ user_data[u].mode # None
        /\ ~turn'.hung
        /\ ~turn'.translate_raised
        /\ ~turn'.reply_failed)
       => user_data'[u].mode = None]_vars

\* C3: last_item is single-use: a location event runs the photo branch
\* exactly when last_item is set, and every location event, whatever its
\* outcome, ends with last_item absent, so that the next location event
\* cannot run the photo branch on it.
C3_SingleUse ==
  [][\A u \in Users :
       LocationStep(u)
       => /\ user_data'[u].last_item = NoItem
          /\ (turn'.branch = "last_item") <=> (user_data[u].last_item # NoItem)
          /\ \A i \in 1..Len(turn'.replies) :
               turn'.replies[i].kind \in {"no_bins_for_item", "nearest_bin_for_item",
                                          "error_finding_bin"}
               => /\ user_data[u].last_item # NoItem
                  /\ SubSeq(turn'.replies[i].detail, 1, 2) = user_data[u].last_item]_vars

\* a location event consumed last_item although the backend call failed
C3_Witness ==
  /\ turn.event = "location"
  /\ turn.branch = "last_item"
  /\ turn.resp.kind \in UnavailableKinds
  /\ user_data[turn.user].last_item = NoItem

\* C4: with both last_item and mode set, a location event runs the photo
\* branch only (one SmartBin query at 500 m, no query of a mode helper),
\* clears last_item and keeps mode; a location event that then finds only
\* mode set runs the mode branch and asks no backend but that mode's.
C4_ClassificationFirst ==
  [][\A u \in Users :
       LocationStep(u)
       => /\ (user_data[u].last_item # NoItem /\ user_data[u].mode # None)
             => /\ turn'.branch = "last_item"
                /\ Len(turn'.queries) = 1
                /\ turn'.queries[1].backend = "v2/sortedwastestations"
                /\ turn'.queries[1].range = 500
                /\ user_data'[u].last_item = NoItem
                /\ user_data'[u].mode = user_data[u].mode
          /\ (user_data[u].last_item = NoItem /\ user_data[u].mode # None)
             => /\ turn'.branch = "mode"
                /\ \A i \in 1..Len(turn'.queries) :
                     turn'.queries[i].backend =
                       (CASE user_data[u].mode = "smarttrash" -> "v2/sortedwastestations"
                          [] user_data[u].mode = "bulkytrash" -> "v1/bulky-waste/stations"
                          [] user_data[u].mode = "wasteyard" -> "v2/wastecollectionyards")]_vars

\* the photo branch has run and mode is still set
C4_Witness ==
  /\ turn.event = "location"
  /\ turn.branch = "last_item"
  /\ user_data[turn.user].last_item = NoItem
  /\ user_data[turn.user].mode \in Modes

\* C5: a location event that finds mode set (and no last_item) sends exactly
\* one query, to the backend of that mode: smarttrash -> sortedwastestations
\* with range 1000 and onlyMonitored, bulkytrash -> bulky-waste/stations with
\* range 2 (km), wasteyard -> wastecollectionyards with range 5000.
\* Stated for the events in which every reply_text call succeeds.
C5_OneQueryForMode ==
  [][\A u \in Users :
       (/\ LocationStep(u)
        /\ user_data[u].last_item = NoItem
        /\ user_data[u].mode # None
        /\ ~turn'.reply_failed)
       => /\ Len(turn'.queries) = 1
          /\ LET q == turn'.queries[1]
                 m == user_data[u].mode
             IN /\ m = "smarttrash" =>
                     q.backend = "v2/sortedwastestations" /\ q.range = 1000 /\ q.onlyMonitored
                /\ m = "bulkytrash" =>
                     q.backend = "v1/bulky-waste/stations" /\ q.range = 2
                /\ m = "wasteyard" =>
                     q.backend = "v2/wastecollectionyards" /\ q.range = 5000]_vars

\* the features of an answer that are at minimal distance from loc
Nearest(loc, features) ==
  { features[i].name : i \in
      { i \in 1..Len(features) :
          \A j \in 1..Len(features) :
            FeatureDistance(loc, features[i]) <= FeatureDistance(loc, features[j]) } }

\* C6: a location event that finds last_item set sends exactly one query,
\* to the SmartBin backend with onlyMonitored, range 500 and limit >= 5, and
\* the facility named in its reply is at minimal distance among all the
\* features of the answer.
C6_PhotoLookupNearest ==
  [][\A u \in Users :
       (LocationStep(u) /\ user_data[u].last_item # NoItem)
       => /\ Len(turn'.queries) = 1
          /\ turn'.queries[1].backend = "v2/sortedwastestations"
          /\ turn'.queries[1].onlyMonitored
          /\ turn'.queries[1].range = 500
          /\ turn'.queries[1].limit >= 5
          /\ \A i \in 1..Len(turn'.replies) :
               turn'.replies[i].kind = "nearest_bin_for_item"
               => turn'.replies[i].detail[3] \in Nearest(turn'.location, turn'.resp.features)]_vars

\* the photo branch named a facility that is not the first of the answer
C6_Witness ==
  /\ turn.event = "location"
  /\ turn.branch = "last_item"
  /\ Len(turn.resp.features) >= 2
  /\ \E i \in 1..Len(turn.replies) :
       /\ turn.replies[i].kind = "nearest_bin_for_item"
       /\ turn.replies[i].detail[3] # turn.resp.features[1].name

\* C7: when the backend queried for a location event answers with zero
\* features, the reply is a "not found" text and no error text, and the
\* key that drove the lookup (last_item or mode) is cleared.
\* Stated for the events in which every reply_text call succeeds.
C7_EmptyResultNotFound ==
  (/\ turn.event = "location"
   /\ turn.queries # <<>>
   /\ turn.resp.kind = "ok"
   /\ turn.resp.features = <<>>
   /\ ~turn.reply_failed)
  => /\ ReplyKinds(turn) \cap NotFoundReplies # {}
     /\ ReplyKinds(turn) \cap ErrorReplies = {}
     /\ turn.branch = "last_item" => user_data[turn.user].last_item = NoItem
     /\ turn.branch = "mode" => user_data[turn.user].mode = None

\* C8: a location event that finds neither mode nor last_item set runs the
\* default branch: one SmartBin query with range 500 and onlyMonitored, a
\* reply that names a nearest feature when one is named, and user_data
\* left as it was, for every outcome of the lookup.
C8_IdleLocationKeepsState ==
  [][\A u \in Users :
       (LocationStep(u) /\ user_data[u] = EmptyUserData)
       => /\ turn'.branch = "default"
          /\ Len(turn'.queries) = 1
          /\ turn'.queries[1].backend = "v2/sortedwastestations"
          /\ turn'.queries[1].range = 500
          /\ turn'.queries[1].onlyMonitored
          /\ \A i \in 1..Len(turn'.replies) :
               turn'.replies[i].kind = "closest_container"
               => turn'.replies[i].detail[1] \in Nearest(turn'.location, turn'.resp.features)
          /\ user_data' = user_data]_vars

\* the default branch has run on a failing backend and the user is idle
C8_Witness ==
  /\ turn.event = "location"
  /\ turn.branch = "default"
  /\ turn.resp.kind \in UnavailableKinds
  /\ user_data[turn.user] = EmptyUserData

\* C9: every event is answered, and no exception leaves its handler: a
\* failure of a backend or of the translation service ends in a reply.
\* Stated for the events in which every reply_text call succeeds and no
\* request hangs.
C9_NoUnhandledFault ==
  (turn.event # "none" /\ ~turn.reply_failed /\ ~turn.hung)
  => (~turn.raised /\ turn.replies # <<>>)

\* C10: translate_text never raises when the translation service fails: no
\* handler run sees a call of translate_text end in an exception.
C10_TranslateNeverRaises == ~turn.translate_raised

\* ------------------------------------------------------------ the localizer
\* Every reply of every handler goes through
\*   lang = <user>.language_code or "en"; translate_text(text, lang)
\* The specification below applies that pair to language codes of up to
\* MaxCodeLen characters.
MaxCodeLen == 3

\* characters of the language codes: both cases of "e" and "n", a letter of
\* another language, the subtag separator
CodeChars == {"e", "n", "E", "N", "c", "-"}

\* language codes as Telegram may report them; <<>> is no code
LocalizeCodes == UNION { [1..k -> CodeChars] : k \in 0..MaxCodeLen }

\* texts handed to the localizer
LocalizeTexts == { Msg("searching", <<>>), Msg("share_location_for_mode", <<"wasteyard">>) }

InitLocalize ==
  /\ user_data = [u \in Users |-> EmptyUserData]
  /\ turn = NoTurn
  /\ call \in { [fn |-> "localize", text |-> t, language_code |-> c,
                  service_ok |-> ok, done |-> FALSE,
                  result |-> [raised |-> FALSE, called |-> FALSE, text |-> t]] :
                   t \in LocalizeTexts, c \in LocalizeCodes, ok \in BOOLEAN }

\* translate_text(text, language_code or "en")
Localize ==
  /\ call.fn = "localize"
  /\ ~call.done
  /\ call' = [call EXCEPT !.done = TRUE,
                          !.result = translate_text(call.text,
                                                    LangOrEn(call.language_code),
                                                    call.service_ok)]
  /\ UNCHANGED <<user_data, turn>>

NextLocalize == Localize

SpecLocalize == InitLocalize /\ [][NextLocalize]_vars

\* the code names English: an "e" and an "n", in either case, at its start
\* (language tags compare without regard to case)
NamesEnglish(code) ==
  /\ Len(code) >= 2
  /\ code[1] \in {"e", "E"}
  /\ code[2] \in {"n", "N"}

\* C11: the localizer returns the text itself and makes no call of the
\* translation service when the language code starts with "en" or is empty;
\* for every other code it calls the translation service exactly once (one
\* call, no retry, whether the call succeeds or fails).
C11_IdentityForEnglish ==
  (call.fn = "localize" /\ call.done)
  => IF call.language_code = <<>> \/ NamesEnglish(call.language_code)
     THEN /\ ~call.result.called
          /\ ~call.result.raised
          /\ call.result.text = call.text
     ELSE call.result.called

\* the localizer was applied to an upper-case English code, service down
C11_Witness ==
  /\ call.fn = "localize"
  /\ call.done
  /\ call.language_code = <<"E", "N", "-">>
  /\ ~call.service_ok
  /\ call.result.text = call.text

\* ------------------------------------------------ photo events that fail
\* the handling of the latest photo event failed: the download or the
\* classification raised, or the translation or the sending of the reply did
PhotoEventFailed ==
  /\ turn.event = "photo"
  /\ ~turn.hung
  /\ \/ turn.photo.kind \in {"download_fails", "vision_fails"}
     \/ turn.translate_raised
     \/ turn.reply_failed

\* C12: a photo event whose handling fails leaves the user with neither
\* last_item nor mode set, whatever an earlier event had stored.
C12_PhotoFailureClearsState ==
  PhotoEventFailed => user_data[turn.user] = EmptyUserData

\* ------------------------------------------------------ replies per event
\* C13: every handled event is answered with exactly one reply text, in
\* every branch and whether or not the handling fails.
\* Stated for the events in which no call of the Telegram API or of the
\* translation service fails and no request hangs.
C13_OneReplyPerEvent ==
  (/\ turn.event # "none"
   /\ ~turn.hung
   /\ ~turn.raised
   /\ ~turn.translate_raised
   /\ ~turn.reply_failed)
  => Len(turn.replies) = 1

\* -------------------------------------------------------- nearest selection
\* closest_feature applied to every list of up to MaxSelect distinct
\* features, from each of a few origins.
MaxSelect == 3

\* Features around the base point: A and B are equally far from every origin
\* on the equator of the grid, D is about 120 m away, C and E lie off axis.
SurveyFacilities ==
  Facilities \cup { [name |-> "D", coordinates |-> <<0, 11>>],
                    [name |-> "E", coordinates |-> <<-5, 4>>] }

SurveyOrigins ==
  Locations \cup { [latitude |-> 0, longitude |-> 2],
                   [latitude |-> -2, longitude |-> -1] }

\* non-empty answers: min() is applied only when features is not empty
SurveyLists ==
  UNION { { fs \in [1..k -> SurveyFacilities] :
              \A i, j \in 1..k : i # j => fs[i] # fs[j] } : k \in 1..MaxSelect }

InitNearest ==
  /\ user_data = [u \in Users |-> EmptyUserData]
  /\ turn = NoTurn
  /\ call \in { [fn |-> "closest_feature", loc |-> o, features |-> fs,
                  done |-> FALSE, result |-> fs[1]] :
                   o \in SurveyOrigins, fs \in SurveyLists }

\* closest_feature = min(features, key=lambda f: calculate_distance(...)[0])
SelectNearest ==
  /\ call.fn = "closest_feature"
  /\ ~call.done
  /\ call' = [call EXCEPT !.done = TRUE,
                          !.result = closest_feature(call.loc, call.features)]
  /\ UNCHANGED <<user_data, turn>>

NextNearest == SelectNearest

SpecNearest == InitNearest /\ [][NextNearest]_vars

\* the features of the list are at pairwise different distances from loc
DistinctDistances(loc, features) ==
  \A i, j \in 1..Len(features) :
    i # j => FeatureDistance(loc, features[i]) # FeatureDistance(loc, features[j])

\* the list in each of its orders
Reorderings(features) ==
  { [i \in 1..Len(features) |-> features[p[i]]] :
      p \in Permutations(1..Len(features)) }

\* C14: the selected feature is one of the answer and none of the answer is
\* nearer; when the distances are pairwise different, every reordering of
\* the answer selects the same feature; among features at the same, minimal
\* distance the one that comes first in the answer is selected.
C14_NearestIsArgmin ==
  (call.fn = "closest_feature" /\ call.done)
  => LET fs == call.features
         d(f) == FeatureDistance(call.loc, f)
     IN /\ \E i \in 1..Len(fs) :
             /\ fs[i] = call.result
             /\ \A j \in 1..(i - 1) : d(fs[j]) > d(call.result)
        /\ \A j \in 1..Len(fs) : d(call.result) <= d(fs[j])
        /\ DistinctDistances(call.loc, fs)
             => \A gs \in Reorderings(fs) : closest_feature(call.loc, gs) = call.result

\* the nearest of three features at different distances stood last
C14_Witness ==
  /\ call.fn = "closest_feature"
  /\ call.done
  /\ Len(call.features) = 3
  /\ DistinctDistances(call.loc, call.features)
  /\ call.result = call.features[3]

\* -------------------------------------------------------------- map_to_bin
\* map_to_bin applied to labels of up to MaxWords words.
MaxWords == 2

W_bottle == <<"b","o","t","t","l","e">>
W_jar == <<"j","a","r">>
W_used == <<"u","s","e","d">>
W_Glass == <<"G","l","a","s","s">>
W_carpet == <<"c","a","r","p","e","t">>
W_PET == <<"P","E","T">>
W_BOTTLE == <<"B","O","T","T","L","E">>

\* words of the labels: the first keyword of every rule, keywords that two
\* rules share or that hide in other words, and words that are no keyword
LabelWords ==
  { BinRules[i].keywords[1] : i \in 1..Len(BinRules) }
    \cup { W_bottle, W_jar, W_used, W_Glass, W_carpet, W_PET, W_BOTTLE, L_xyz, L_Drinkware }

\* labels of exactly n words, joined by single spaces
RECURSIVE LabelsOfWords(_)
LabelsOfWords(n) ==
  IF n = 1 THEN LabelWords
  ELSE { l \o <<" ">> \o w : l \in LabelsOfWords(n - 1), w \in LabelWords }

\* the empty label, the labels of classify_image above, and every label of
\* one to MaxWords words
MapLabels ==
  { <<>>, L_unknown, L_plastic_bottle, L_used_glass_jar }
    \cup UNION { LabelsOfWords(n) : n \in 1..MaxWords }

InitMapToBin ==
  /\ user_data = [u \in Users |-> EmptyUserData]
  /\ turn = NoTurn
  /\ call \in { [fn |-> "map_to_bin", label |-> l, done |-> FALSE,
                  result |-> <<"", "">>] : l \in MapLabels }

\* category, color = map_to_bin(label)
ApplyMapToBin ==
  /\ call.fn = "map_to_bin"
  /\ ~call.done
  /\ call' = [call EXCEPT !.done = TRUE, !.result = map_to_bin(call.label)]
  /\ UNCHANGED <<user_data, turn>>

NextMapToBin == ApplyMapToBin

SpecMapToBin == InitMapToBin /\ [][NextMapToBin]_vars

\* the order of the rules and the bin colours, as the claims give them
RuleOrder ==
  << <<"Plastics", "yellow">>, <<"Paper", "blue">>, <<"Glass", "green">>,
     <<"Metals", "gray">>, <<"Biodegradable waste", "brown">>,
     <<"Beverage cartons", "orange">>, <<"Electronic waste", "drop-off">>,
     <<"Hazardous waste", "drop-off">>, <<"Textile", "drop-off">> >>

\* label, in lower case, holds one of the keywords of rule i
HoldsKeywordOf(label, i) ==
  \E k \in 1..Len(BinRules[i].keywords) :
    LET kw == BinRules[i].keywords[k]
    IN \E start \in 1..(Len(label) - Len(kw) + 1) :
         \A n \in 1..Len(kw) : LowerChar(label[start + n - 1]) = kw[n]

\* C15: map_to_bin gives, for every label, the (category, colour) of the
\* first rule, in the order plastics, paper, glass, metals, biodegradable,
\* beverage cartons, electronic, hazardous, textile, one of whose keywords
\* is a substring of the lower-cased label, and Mixed waste/black when no
\* rule has one; "plastic bottle" gives Plastics, "used glass jar" Glass
\* and "xyz" Mixed waste.
C15_FirstMatchTotal ==
  (call.fn = "map_to_bin" /\ call.done)
  => /\ Len(BinRules) = Len(RuleOrder)
     /\ IF \E i \in 1..Len(RuleOrder) : HoldsKeywordOf(call.label, i)
        THEN \E i \in 1..Len(RuleOrder) :
               /\ HoldsKeywordOf(call.label, i)
               /\ \A j \in 1..(i - 1) : ~HoldsKeywordOf(call.label, j)
               /\ call.result = RuleOrder[i]
        ELSE call.result = <<"Mixed waste", "black">>
     /\ call.label = L_plastic_bottle => call.result[1] = "Plastics"
     /\ call.label = L_used_glass_jar => call.result[1] = "Glass"
     /\ call.label = L_xyz => call.result[1] = "Mixed waste"

\* a label with keywords of two rules, the later rule's keyword first
C15_Witness ==
  /\ call.fn = "map_to_bin"
  /\ call.done
  /\ call.label = W_Glass \o <<" ">> \o W_bottle
  /\ call.result = <<"Plastics", "yellow">>

\* ------------------------------------------------- what a photo event stores
\* the step handles a photo event of user u that the vision service labelled
ClassifiedPhotoStep(u) ==
  turn'.event = "photo" /\ turn'.user = u /\ turn'.photo.kind = "labels"

\* the labels a photo event may store, in lower case
StorableLabels ==
  { L_unknown } \cup
    UNION { { Lower(ls[i]) : i \in 1..Len(ls) } : ls \in VisionLabelLists }

\* the bin colour map_to_bin gives for each of them
BinColourOf == [l \in StorableLabels |-> map_to_bin(l)[2]]

\* C16: a photo event that is classified stores, as last_item, a label of
\* the photo together with the bin colour map_to_bin gives for that label,
\* whatever last_item held before, and leaves mode as it was; last_item then
\* stays as stored until a location event, which runs the photo branch for
\* it: one SmartBin lookup whose reply names the stored label and colour
\* (or is the text of the handler's outer except).
C16_PhotoStoresClassification ==
  [][\A u \in Users :
       /\ ClassifiedPhotoStep(u)
          => LET li == user_data'[u].last_item
             IN /\ li # NoItem
                /\ li[1] \in StorableLabels
                /\ turn'.photo.labels # <<>>
                     => \E i \in 1..Len(turn'.photo.labels) :
                          li[1] = Lower(turn'.photo.labels[i])
                /\ li[2] = BinColourOf[li[1]]
                /\ user_data'[u].mode = user_data[u].mode
       /\ (turn'.user = u /\ turn'.event = "choice")
          => user_data'[u].last_item = user_data[u].last_item
       /\ (LocationStep(u) /\ user_data[u].last_item # NoItem)
          => /\ turn'.branch = "last_item"
             /\ Len(turn'.queries) = 1
             /\ turn'.queries[1] = LocationParamsQuery(turn'.location)
             /\ \A i \in 1..Len(turn'.replies) :
                  \/ turn'.replies[i].kind = "error_processing_location"
                  \/ /\ turn'.replies[i].kind \in
                          {"no_bins_for_item", "nearest_bin_for_item", "error_finding_bin"}
                     /\ SubSeq(turn'.replies[i].detail, 1, 2) = user_data[u].last_item]_vars

\* a photo of a glass jar was stored with the green bin although the reply
\* to the photo failed, a mode being set
C16_Witness ==
  /\ turn.event = "photo"
  /\ turn.photo.labels = <<L_used_glass_jar, L_plastic_bottle>>
  /\ turn.reply_failed
  /\ user_data[turn.user].last_item = <<L_used_glass_jar, "green">>
  /\ user_data[turn.user].mode \in Modes

\* ---------------------------------------------- what a button event stores
\* query.answer() raised: the handler ended before it read the button
AnswerFailed(t) ==
  t.event = "choice" /\ t.raised /\ ~t.translate_raised /\ ~t.reply_failed

W_help == <<"h","e","l","p">>
W_info == <<"i","n","f","o">>
W_what_can_you_do == <<"w","h","a","t"," ","c","a","n"," ","y","o","u"," ","d","o">>

\* the words of the help shortcut
HelpWords == <<W_help, W_info, W_what_can_you_do>>

\* str.strip(): leading and trailing blanks removed
RECURSIVE Strip(_)
Strip(s) ==
  IF s = <<>> THEN s
  ELSE IF Head(s) = " " THEN Strip(Tail(s))
  ELSE IF s[Len(s)] = " " THEN Strip(SubSeq(s, 1, Len(s) - 1))
  ELSE s

\* any(word in message_text.lower() for word in [...])
IsHelpRequest(message_text) ==
  \E i \in 1..Len(HelpWords) : Contains(Lower(message_text), HelpWords[i])

\* the request to the chat model: the system prompt and the stored history
LLMRequest(chat_history) ==
  [backend |-> "chat/completions", messages |-> chat_history]

\* the four texts random.choice picks from in the except clause
ChatErrorMessages == 1..4

\* The "except Exception" of handle_message: one of the four error texts.
MessageFailed(st, lang) ==
  UNION { { IF t.exc = "none" THEN t ELSE [t EXCEPT !.raised = TRUE] :
              t \in SendReplies([st EXCEPT !.exc = "none"], Msg("chat_error", <<n>>), lang) } :
            n \in ChatErrorMessages }

\* what the typing action and the chat model meet
MessageOutcomes == {"ok", "typing_fails", "llm_fails"}

\* handle_message(update, context): the help shortcut (outside the try),
\* else the typing action, the user's message appended to chat_history, the
\* history cut to its last 10 entries, the request to the chat model, the
\* reply appended to chat_history and sent.
handle_message(ud, text, language_code, outcome) ==
  LET lang == LangOrEn(language_code)
      message_text == Strip(text)
      st0 == NewRun(ud, "text")
      appended == Append(ud.chat_history, [role |-> "user", content |-> message_text])
      kept == IF Len(appended) > 10
              THEN SubSeq(appended, Len(appended) - 9, Len(appended))
              ELSE appended
      asked == [st0 EXCEPT !.ud.chat_history = kept,
                           !.queries = Append(@, LLMRequest(kept))]
      answered == [asked EXCEPT !.ud.chat_history =
                     Append(kept, [role |-> "assistant", content |-> <<"r">>])]
  IN IF IsHelpRequest(message_text)
     THEN { IF t.exc = "none" THEN t ELSE [t EXCEPT !.raised = TRUE] :
              t \in SendReplies([st0 EXCEPT !.branch = "help"], Msg("help_text", <<>>), lang) }
     ELSE CASE outcome = "typing_fails" -> MessageFailed([st0 EXCEPT !.exc = "Exception"], lang)
            [] outcome = "llm_fails" -> MessageFailed([asked EXCEPT !.exc = "Exception"], lang)
            [] OTHER ->
                 UNION { IF s.exc = "none" THEN {s} ELSE MessageFailed(s, lang) :
                           s \in SendReplies(answered, Msg("llm_reply", <<>>), lang) }

\* ---------------------------------------------------------- the update loop
\* main() builds the Application without concurrent_updates and every
\* handler makes its network calls (requests.get, requests.post,
\* client.chat.completions.create) synchronously inside the coroutine: one
\* update is handled at a time, on the one thread of the event loop.
\* A handler is taken up (it runs to its first blocking call) and finished
\* (the call returns and the rest of the handler runs); turn is the record
\* of the update the loop is at, empty until its handler has finished.

\* text events are taken up while chat_history holds fewer entries
MaxLoopHistory == 1

LoopUsers == {"u1", "u2"}

\* effective_user.language_code of the two users
LanguageOf == [u \in LoopUsers |-> IF u = "u1" THEN <<"c", "s">> ELSE <<>>]

\* context.user_data of a user that has sent nothing yet
EmptyLoopData == [mode |-> None, last_item |-> NoItem, chat_history |-> <<>>]

T_Help_me == <<"H","e","l","p"," ","m","e">>
T_hello == <<"h","e","l","l","o">>

LoopTexts == {T_Help_me, T_hello}
LoopChoices == {"wasteyard"}
LoopLocations == { [latitude |-> 1, longitude |-> 0] }
LoopPhotos ==
  { [kind |-> "vision_fails", labels |-> <<>>],
    [kind |-> "vision_no_response", labels |-> <<>>],
    [kind |-> "labels", labels |-> <<L_xyz>>] }
LoopResponses ==
  { [kind |-> "network_error", features |-> <<>>],
    [kind |-> "no_response", features |-> <<>>],
    [kind |-> "ok", features |-> <<>>],
    [kind |-> "ok", features |-> <<CHOOSE f \in Facilities : f.name = "A">>] }

\* the record of a handled event, with the text of a text event
LoopTurn(u, event, photo, choice, location, resp, text, run) ==
  Turn(u, event, photo, choice, location, resp, run) @@ [text |-> text]

\* (variant: one dictionary for all users, as context.bot_data is)
StoreSharedData(u, ud) == [v \in DOMAIN user_data |-> ud]

\* context.user_data is the dictionary of the user of the update
StoreUserData(u, ud) == [user_data EXCEPT ![u] = ud]

\* The first synchronous network call the handler of an event reaches:
\* the vision request, a Golemio request, the chat model, or a translation
\* ("telegram" when only awaited Telegram calls are made).
FirstBlockingCall(ud, event, text, language_code) ==
  LET translates == translate_text(Msg("any", <<>>), LangOrEn(language_code), TRUE).called
  IN CASE event = "photo" -> "classification"
       [] event = "location" ->
            IF ud.last_item = NoItem /\ ud.mode # None /\ translates
            THEN "translation" ELSE "provider"
       [] event = "choice" -> IF translates THEN "translation" ELSE "telegram"
       [] event = "text" ->
            IF ~IsHelpRequest(Strip(text)) THEN "chat model"
            ELSE IF translates THEN "translation" ELSE "telegram"

\* the updates user u may send next
LoopEvents(u) ==
  { [event |-> "photo", choice |-> None, location |-> NoLocation, text |-> <<>>] }
    \cup { [event |-> "choice", choice |-> c, location |-> NoLocation, text |-> <<>>] :
             c \in LoopChoices }
    \cup { [event |-> "location", choice |-> None, location |-> l, text |-> <<>>] :
             l \in LoopLocations }
    \cup { [event |-> "text", choice |-> None, location |-> NoLocation, text |-> x] :
             x \in IF Len(user_data[u].chat_history) < MaxLoopHistory
                   THEN LoopTexts ELSE {} }

\* nothing recorded yet for the update in progress
NoLoopTurn == NoTurn @@ [text |-> <<>>]

InitLoop ==
  /\ user_data = [u \in LoopUsers |-> EmptyLoopData]
  /\ turn = NoLoopTurn
  /\ call = NoCall

\* the loop takes the next update, of user u, and runs its handler up to
\* the handler's first blocking call
TakeUp(u) ==
  /\ call = NoCall
  /\ \E e \in LoopEvents(u) :
       call' = [fn |-> "handler", user |-> u, event |-> e.event, choice |-> e.choice,
                location |-> e.location, text |-> e.text,
                pending |-> FirstBlockingCall(user_data[u], e.event, e.text, LanguageOf[u]),
                stuck |-> FALSE]
  /\ turn' = NoLoopTurn
  /\ UNCHANGED user_data

\* the handler in progress ends as run, or never returns from its call
FinishWith(run, photo, resp) ==
  IF run.hung
  THEN /\ call' = [call EXCEPT !.stuck = TRUE]
       /\ UNCHANGED <<user_data, turn>>
  ELSE /\ call' = NoCall
       /\ user_data' = StoreUserData(call.user, run.ud)
       /\ turn' = LoopTurn(call.user, call.event, photo, call.choice, call.location,
                           resp, call.text, run)

InProgress(event) == call # NoCall /\ call.event = event /\ ~call.stuck

FinishPhoto ==
  /\ InProgress("photo")
  /\ \E photo \in LoopPhotos :
       \E run \in handle_photo(user_data[call.user], photo, LanguageOf[call.user]) :
         FinishWith(run, photo, NoResponse)

FinishChoice ==
  /\ InProgress("choice")
  /\ \E answer_ok \in BOOLEAN :
       \E run \in handle_choice(user_data[call.user], call.choice, LanguageOf[call.user], answer_ok) :
         FinishWith(run, NoPhoto, NoResponse)

FinishLocation ==
  /\ InProgress("location")
  /\ \E resp \in LoopResponses :
       \E run \in handle_location(user_data[call.user], call.location, LanguageOf[call.user], resp) :
         FinishWith(run, NoPhoto, IF run.queries = <<>> THEN NoResponse ELSE resp)

FinishMessage ==
  /\ InProgress("text")
  /\ \E outcome \in MessageOutcomes :
       \E run \in handle_message(user_data[call.user], call.text, LanguageOf[call.user], outcome) :
         FinishWith(run, NoPhoto, NoResponse)

NextLoop ==
  \/ \E u \in LoopUsers : TakeUp(u)
  \/ FinishPhoto
  \/ FinishChoice
  \/ FinishLocation
  \/ FinishMessage

SpecLoop == InitLoop /\ [][NextLoop]_vars

\* --------------------------------------------------------- users side by side
\* the step ends the handling of an event of user a
FinishStep(a) == call # NoCall /\ call.user = a /\ call' = NoCall

\* every run of the handler of the event recorded in t, for the user data ud
\* and the language code of the user of the event, over all that the
\* services may answer
RunsFor(ud, t) ==
  LET language_code == LanguageOf[t.user]
  IN CASE t.event = "photo" -> handle_photo(ud, t.photo, language_code)
       [] t.event = "choice" ->
            UNION { handle_choice(ud, t.choice, language_code, ok) : ok \in BOOLEAN }
       [] t.event = "location" ->
            UNION { handle_location(ud, t.location, language_code, resp) :
                      resp \in IF t.resp = NoResponse THEN LoopResponses ELSE {t.resp} }
       [] t.event = "text" ->
            UNION { handle_message(ud, t.text, language_code, o) : o \in MessageOutcomes }

\* C18: the handling of an event of user a, at whatever point of the other
\* users' conversations it comes, leaves the mode, the last_item and the
\* chat history of every other user as they were; the replies to a and a's
\* new data are those of a run of the handler on a's own data and event.
C18_UsersIsolated ==
  [][\A a \in LoopUsers :
       /\ FinishStep(a)
          => /\ \A b \in LoopUsers \ {a} : user_data'[b] = user_data[b]
             /\ \E run \in RunsFor(user_data[a], turn') :
                  /\ run.ud = user_data'[a]
                  /\ run.replies = turn'.replies
       /\ ~FinishStep(a) /\ (\A b \in LoopUsers \ {a} : ~FinishStep(b))
          => user_data'[a] = user_data[a]]_vars

\* u2 was answered after u1 had stored a mode, a classified photo and a
\* chat history, and holds none of them
C18_Witness ==
  /\ call = NoCall
  /\ turn.user = "u2"
  /\ turn.event = "location"
  /\ user_data["u1"].mode \in Modes
  /\ user_data["u1"].last_item # NoItem
  /\ user_data["u1"].chat_history # <<>>
  /\ user_data["u2"] = EmptyLoopData

\* the synchronous network calls of the handlers
BlockingCalls == {"provider", "classification", "translation"}

\* C19: while a provider, classification or translation call made for one
\* user is pending, an update of any other user can be taken up.
C19_OtherUserNotBlocked ==
  (call # NoCall /\ call.pending \in BlockingCalls)
  => \A b \in LoopUsers \ {call.user} : ENABLED TakeUp(b)

\* ------------------------------------------------------ requests that end
\* C20: every request a location event sends to a backend carries a
\* timeout, the handling of a location event ends even when the backend
\* never answers, and an unanswered request is reported with the
\* "unavailable" text of its branch.
\* The reply is stated for the events in which every translation and every
\* reply_text call succeeds.
C20_EveryRequestTimesOut ==
  turn.event = "location"
  => /\ \A i \in 1..Len(turn.queries) : turn.queries[i].timeout > 0
     /\ ~turn.hung
     /\ (/\ turn.queries # <<>>
         /\ turn.resp.kind = "no_response"
         /\ ~turn.translate_raised
         /\ ~turn.reply_failed)
        => ReplyKinds(turn) \cap UnavailableReplies # {}

\* ------------------------------------------------- not found or unavailable
\* answers that are no feature collection: the backend is unreachable,
\* answers with an error status, or sends a payload that is no JSON, or a
\* JSON document without "features", or features of another shape
FailedAnswers ==
  {"network_error", "http_error", "bad_json_request_exception",
   "bad_json_value_error", "bad_shape", "no_features"}

\* C21: a location event whose backend reports zero features is never
\* answered with an "unavailable" text, and one whose backend fails or
\* sends a payload that cannot be read as a feature collection is never
\* answered with a "nothing found nearby" text, in any branch.
C21_NotFoundIsNotFailure ==
  (turn.event = "location" /\ turn.queries # <<>>)
  => /\ (turn.resp.kind = "ok" /\ turn.resp.features = <<>>)
          => ReplyKinds(turn) \cap UnavailableReplies = {}
     /\ turn.resp.kind \in FailedAnswers
          => ReplyKinds(turn) \cap NotFoundReplies = {}

\* ------------------------------------------------------ distances both ways
\* calculate_distance applied to every pair of points of a grid of
\* 2 * MaxStep + 1 latitudes and as many longitudes; the latitudes lie on
\* both sides of the parallel at which CosCenti steps from 64 to 63.
MaxStep == 3

GridLatitudes == { 3737 + 3 * k : k \in (0 - MaxStep)..MaxStep }
GridLongitudes == { 7 * k : k \in (0 - MaxStep)..MaxStep }

GridPoints ==
  { [latitude |-> la, longitude |-> lo] : la \in GridLatitudes, lo \in GridLongitudes }

InitDistance ==
  /\ user_data = [u \in Users |-> EmptyUserData]
  /\ turn = NoTurn
  /\ call \in { [fn |-> "calculate_distance", a |-> a, b |-> b,
                  done |-> FALSE, result |-> 0] : a, b \in GridPoints }

\* distance, _ = calculate_distance(a.latitude, a.longitude, b.latitude, b.longitude)
MeasureDistance ==
  /\ call.fn = "calculate_distance"
  /\ ~call.done
  /\ call' = [call EXCEPT
                !.done = TRUE,
                !.result = calculate_distance(call.a.latitude, call.a.longitude,
                                              call.b.latitude, call.b.longitude).distance]
  /\ UNCHANGED <<user_data, turn>>

NextDistance == MeasureDistance

SpecDistance == InitDistance /\ [][NextDistance]_vars

\* C22: the distance from a to b is the distance from b to a, the distance
\* from a point to itself is 0, and the scale is that of a sphere of radius
\* 6,371,000 m: 9 units (0.0009 degree) of latitude are 100 m, to the metre.
C22_DistanceSymmetric ==
  (call.fn = "calculate_distance" /\ call.done)
  => /\ call.result = calculate_distance(call.b.latitude, call.b.longitude,
                                         call.a.latitude, call.a.longitude).distance
     /\ call.a = call.b => call.result = 0
     /\ call.result >= 0
     /\ R = 6371000
     /\ (call.a.longitude = call.b.longitude
         /\ call.b.latitude - call.a.latitude \in {9, -9})
        => RoundMetres(call.result) \in 99..101

\* two different points on the two sides of the cosine step, apart in
\* latitude and in longitude
C22_Witness ==
  /\ call.fn = "calculate_distance"
  /\ call.done
  /\ CosCenti(call.a.latitude) # CosCenti(call.b.latitude)
  /\ call.a.longitude # call.b.longitude
  /\ call.result > 0

\* ------------------------------------------------------------ the chat
\* The text events of one user, handled one after the other.
T_Info_padded == <<" "," ","I","n","f","o"," ">>
T_hello_padded == <<" ","h","e","l","l","o"," ">>

\* texts a user types: two that ask for help, two that do not
ChatTexts == {T_Help_me, T_Info_padded, T_hello, T_hello_padded}

InitChat ==
  /\ user_data = [u \in Users |-> EmptyLoopData]
  /\ turn = NoLoopTurn
  /\ call = NoCall

\* a text message of user u that is no command
HandleMessage(u) ==
  /\ \E text \in ChatTexts, language_code \in LanguageCodes, outcome \in MessageOutcomes :
       \E run \in handle_message(user_data[u], text, language_code, outcome) :
         /\ user_data' = [user_data EXCEPT ![u] = run.ud]
         /\ turn' = LoopTurn(u, "text", NoPhoto, None, NoLocation, NoResponse, text, run)
  /\ UNCHANGED call

NextChat == \E u \in Users : HandleMessage(u)

SpecChat == InitChat /\ [][NextChat]_vars

\* C23: the stored chat history never holds more than 10 entries, and a
\* text event that contains "help", "info" or "what can you do" is answered
\* by the help text, leaves the history as it was and sends no request to
\* the chat model.
C23_HistoryAtMostTen ==
  [][\A u \in Users :
       /\ Len(user_data'[u].chat_history) <= 10
       /\ (turn'.user = u /\ turn'.event = "text"
           /\ \E i \in 1..Len(HelpWords) : Contains(Lower(turn'.text), HelpWords[i]))
          => /\ user_data'[u].chat_history = user_data[u].chat_history
             /\ turn'.queries = <<>>
             /\ \A i \in 1..Len(turn'.replies) : turn'.replies[i].kind = "help_text"]_vars

\* ---------------------------------------------------------- classify_image
\* classify_image applied to every answer of the vision service of up to
\* MaxLabels labels (the request asks for at most 5).
MaxLabels == 3

\* labels of the vision service: two without keyword, four with keywords
\* of one or of two rules, in either case
SurveyLabels ==
  {L_xyz, L_Drinkware, L_plastic_bottle, L_used_glass_jar, W_Glass, W_carpet}

SurveyLabelLists == UNION { [1..k -> SurveyLabels] : k \in 0..MaxLabels }

InitClassify ==
  /\ user_data = [u \in Users |-> EmptyUserData]
  /\ turn = NoTurn
  /\ call \in { [fn |-> "classify_image", labelAnnotations |-> ls,
                  done |-> FALSE, result |-> <<>>] : ls \in SurveyLabelLists }

\* item = classify_image(image_path), the vision service answering
\* labelAnnotations
ApplyClassify ==
  /\ call.fn = "classify_image"
  /\ ~call.done
  /\ call' = [call EXCEPT !.done = TRUE,
                          !.result = classify_image(call.labelAnnotations)]
  /\ UNCHANGED <<user_data, turn>>

NextClassify == ApplyClassify

SpecClassify == InitClassify /\ [][NextClassify]_vars

\* some rule of map_to_bin has a keyword in the label
Sortable(label) == \E i \in 1..Len(BinRules) : HoldsKeywordOf(label, i)

\* C24: classify_image returns, in lower case, the first label of the
\* answer that map_to_bin maps to a category other than Mixed waste; the
\* first label when there is none; and "unknown", which map_to_bin maps to
\* Mixed waste/black, when the answer holds no label.
C24_FirstUsefulLabel ==
  (call.fn = "classify_image" /\ call.done)
  => LET ls == call.labelAnnotations
     IN /\ ls = <<>> => call.result = L_unknown
        /\ (ls # <<>> /\ \A i \in 1..Len(ls) : ~Sortable(ls[i]))
             => call.result = Lower(ls[1])
        /\ \A i \in 1..Len(ls) :
             (Sortable(ls[i]) /\ \A j \in 1..(i - 1) : ~Sortable(ls[j]))
             => /\ call.result = Lower(ls[i])
                /\ map_to_bin(call.result)[1] # "Mixed waste"
        /\ map_to_bin(L_unknown) = <<"Mixed waste", "black">>

\* the third label was returned, the two before it having no category
C24_Witness ==
  /\ call.fn = "classify_image"
  /\ call.done
  /\ call.labelAnnotations = <<L_Drinkware, L_xyz, W_Glass>>
  /\ call.result = Lower(W_Glass)

\* ------------------------------------------------------ bottles of glass
\* word occurs in label, case disregarded (word given in lower case)
Mentions(label, word) ==
  \E start \in 1..(Len(label) - Len(word) + 1) :
    \A n \in 1..Len(word) : LowerChar(label[start + n - 1]) = word[n]

\* C25: a label that contains "bottle" is mapped to Plastics/yellow and
\* never to Glass, so that the "bottle" keyword of the glass rule decides
\* nothing: a label mapped to Glass contains "glass" or "jar"; and a label
\* with keywords of several rules gets the category of the earliest of
\* those rules, "glass bottle" that of Plastics.
C25_BottleIsPlastics ==
  (call.fn = "map_to_bin" /\ call.done)
  => /\ Mentions(call.label, W_bottle) => call.result = <<"Plastics", "yellow">>
     /\ call.result[1] = "Glass"
          => /\ ~Mentions(call.label, W_bottle)
             /\ Mentions(call.label, Lower(W_Glass)) \/ Mentions(call.label, W_jar)
     /\ \A i, j \in 1..Len(BinRules) :
          (i < j /\ HoldsKeywordOf(call.label, i) /\ HoldsKeywordOf(call.label, j))
          => call.result[1] # BinRules[j].category
     /\ Lower(call.label) = Lower(W_Glass) \o <<" ">> \o W_bottle
          => call.result = <<"Plastics", "yellow">>

\* a label with "jar" and, in capitals, "bottle" went to the yellow bin
C25_Witness ==
  /\ call.fn = "map_to_bin"
  /\ call.done
  /\ call.label = W_jar \o <<" ">> \o W_BOTTLE
  /\ call.result = <<"Plastics", "yellow">>

====
